---- MODULE Spec2Model ----
(***************************************************************************)
(* A model of setup.py, the script that bootstraps CLAUDE.md into a        *)
(* project directory: download the template, ask what to do with an        *)
(* existing CLAUDE.md, prompt for three values, fill the placeholders,     *)
(* write or merge, and create AGENTS.md.                                   *)
(*                                                                         *)
(* Text is a sequence of tokens.  The characters the code looks at one by  *)
(* one ("#", " ", newline, tab, "{", "}") are one token each; a run of     *)
(* characters the code only ever compares as a whole (a heading's title,   *)
(* a placeholder's name, a word of body text) is one token.  Offsets are   *)
(* Python's (0-based), so Slice(s, a, b) is s[a:b].                        *)
(***************************************************************************)
EXTENDS Integers, Sequences, FiniteSets, TLC

VARIABLES
    pc,         \* position of main(): "start", "check", ..., "done", "exited", "crashed"
    template,   \* main's template: None until download_template() has returned
                \* (in SpecMerge and SpecFull: the template merge_into is called with)
    claude,     \* CLAUDE.md: NoFile or a regular file
    agents,     \* AGENTS.md: NoFile, a regular file, or a symlink
    system,     \* platform.system()
    choice,     \* main's choice: None or the stripped, lower-cased answer
    name,       \* main's name
    build,      \* main's build
    test,       \* main's test
    filled,     \* main's filled
    prompts,    \* number of input() calls made so far
    exitCode,   \* Running, then the process's exit code
    added,      \* merge_into's added, as of its last call
    printed,    \* the last line merge_into printed, and the count it reports
    writes,     \* number of times CLAUDE.md was opened for writing or appending
    wrote,      \* whether the last merge_into call (or main's else branch) opened it so
    calls,      \* number of merge_into calls made so far
    before,     \* CLAUDE.md as it was when the last merge_into call (or the run) started
    agents0     \* AGENTS.md as it was when the run started

vars == <<pc, template, claude, agents, system, choice, name, build, test,
          filled, prompts, exitCode, added, printed, writes, wrote, calls, before, agents0>>

-----------------------------------------------------------------------------
(* Characters and Python's str operations *)

NL == "\n"
TAB == "\t"
SP == " "
HASH == "#"

\* what str.rstrip(), str.strip() and the regex class \s take for whitespace
Whitespace == {SP, TAB, NL}

\* Python's None where a text may stand: a value that equals no text
None == <<"None">>

\* a path's state: no file, a regular file with its content, or a symlink
NoFile == [kind |-> "none"]
RegularFile(data) == [kind |-> "file", data |-> data]
SymlinkTo(target) == [kind |-> "symlink", target |-> target]

\* os.path.exists(path) of a file of the model
Exists(file) == file.kind # "none"

\* exitCode while the process runs
Running == -1

\* s[a:b]
Slice(s, a, b) == SubSeq(s, a + 1, b)

StartsAt(s, sub, i) ==
    /\ i + Len(sub) <= Len(s)
    /\ \A j \in 1..Len(sub) : s[i + j] = sub[j]

RECURSIVE FindFrom(_, _, _)
\* s.find(sub, i): the lowest offset >= i where sub occurs, or -1
FindFrom(s, sub, i) ==
    IF i + Len(sub) > Len(s) THEN -1
    ELSE IF StartsAt(s, sub, i) THEN i
    ELSE FindFrom(s, sub, i + 1)

\* s.find(sub)
Find(s, sub) == FindFrom(s, sub, 0)

\* sub in s
Contains(s, sub) == Find(s, sub) # -1

RECURSIVE RStrip(_)
\* s.rstrip()
RStrip(s) ==
    IF Len(s) > 0 /\ s[Len(s)] \in Whitespace
    THEN RStrip(SubSeq(s, 1, Len(s) - 1))
    ELSE s

RECURSIVE LStrip(_)
LStrip(s) ==
    IF Len(s) > 0 /\ s[1] \in Whitespace THEN LStrip(Tail(s)) ELSE s

\* s.strip()
Strip(s) == RStrip(LStrip(s))

RECURSIVE LStripHash(_)
\* s.lstrip("#")
LStripHash(s) ==
    IF Len(s) > 0 /\ s[1] = HASH THEN LStripHash(Tail(s)) ELSE s

RECURSIVE Replace(_, _, _)
\* s.replace(old, new): every non-overlapping occurrence, leftmost first;
\* the scan goes on after the occurrence, never into the text put in
Replace(s, old, new) ==
    LET i == Find(s, old)
    IN  IF i = -1 THEN s
        ELSE Slice(s, 0, i) \o new \o Replace(Slice(s, i + Len(old), Len(s)), old, new)

RECURSIVE Flatten(_)
Flatten(ss) == IF ss = <<>> THEN <<>> ELSE Head(ss) \o Flatten(Tail(ss))

-----------------------------------------------------------------------------
(* merge_into *)

Heading(level, title) == [i \in 1..level |-> HASH] \o <<SP, title>>

WORKFLOW_SECTIONS == <<
    Heading(2, "Workflow: Plan → Grind"),
    Heading(3, "Plan (default)"),
    Heading(3, "Grind (on approval)"),
    Heading(3, "Fullgate"),
    Heading(3, "Claiming Work (GitHub)"),
    Heading(3, "Teams") >>

\* len(heading) - len(heading.lstrip("#"))
Level(heading) == Len(heading) - Len(LStripHash(heading))

\* the regex \n(#{1,level})\s matches t at offset i
HeadingReMatchAt(t, i, level) ==
    /\ i + 1 <= Len(t)
    /\ t[i + 1] = NL
    /\ \E k \in 1..level :
          /\ i + k + 2 <= Len(t)
          /\ \A j \in 1..k : t[i + 1 + j] = HASH
          /\ t[i + k + 2] \in Whitespace

RECURSIVE FirstHeadingMatch(_, _, _)
\* the start of the first match re.finditer yields over t, from offset i on; -1 if none
FirstHeadingMatch(t, i, level) ==
    IF i >= Len(t) THEN -1
    ELSE IF HeadingReMatchAt(t, i, level) THEN i
    ELSE FirstHeadingMatch(t, i + 1, level)

\* the end offset lines 110-115 compute for the heading found at start
\* (what lines 99-108 computed before is overwritten at line 112)
SectionEnd(workflow_block, heading, start) ==
    LET level == Level(heading)
        search_start == start + Len(heading)
        m == FirstHeadingMatch(Slice(workflow_block, search_start, Len(workflow_block)), 0, level)
    IN  IF m = -1 THEN Len(workflow_block) ELSE search_start + m

\* Section, had the slice started after the heading instead of at it
SectionBodyOnly(workflow_block, heading) ==
    LET start == Find(workflow_block, heading)
    IN  RStrip(Slice(workflow_block, start + Len(heading),
                     SectionEnd(workflow_block, heading, start))) \o <<NL>>

\* line 116: section = workflow_block[start:end].rstrip() + "\n"
Section(workflow_block, heading) ==
    LET start == Find(workflow_block, heading)
    IN  RStrip(Slice(workflow_block, start, SectionEnd(workflow_block, heading, start))) \o <<NL>>

RECURSIVE CollectFromAll(_, _, _)
\* CollectFrom, had the loop not skipped the headings the target already holds
CollectFromAll(existing, workflow_block, i) ==
    IF i > Len(WORKFLOW_SECTIONS) THEN <<>>
    ELSE LET heading == WORKFLOW_SECTIONS[i]
             rest == CollectFromAll(existing, workflow_block, i + 1)
         IN  IF Find(workflow_block, heading) # -1
             THEN <<Section(workflow_block, heading)>> \o rest
             ELSE rest

RECURSIVE CollectFrom(_, _, _)
\* the loop of lines 93-117, from the i-th recognized heading on
CollectFrom(existing, workflow_block, i) ==
    IF i > Len(WORKFLOW_SECTIONS) THEN <<>>
    ELSE LET heading == WORKFLOW_SECTIONS[i]
             rest == CollectFrom(existing, workflow_block, i + 1)
         IN  IF ~Contains(existing, heading) /\ Find(workflow_block, heading) # -1
             THEN <<Section(workflow_block, heading)>> \o rest
             ELSE rest

\* added, as it stands at line 119 (<<>> also when the function returned at line 88)
Collect(existing, tpl) ==
    LET idx == Find(tpl, WORKFLOW_SECTIONS[1])
    IN  IF idx = -1 THEN <<>>
        ELSE CollectFrom(existing, Slice(tpl, idx, Len(tpl)), 1)

RECURSIVE AppendSections(_)
\* what the loop of lines 125-126 writes
AppendSections(sections) ==
    IF sections = <<>> THEN <<>>
    ELSE <<NL>> \o Head(sections) \o AppendSections(Tail(sections))

\* Appended, had line 124 been left out
AppendedNoLead(sections) == AppendSections(sections)

\* lines 123-126: the text the append-mode handle receives
Appended(sections) == <<NL>> \o AppendSections(sections)

Report(text, count) == [text |-> text, count |-> count]

\* merge_into("CLAUDE.md", tpl) as a step; open() at line 80 needs the file
merge_into(tpl) ==
    LET existing == claude.data
    IN  /\ claude.kind = "file"
        /\ before' = claude
        /\ calls' = calls + 1
        /\ added' = Collect(existing, tpl)
        /\ IF Find(tpl, WORKFLOW_SECTIONS[1]) = -1
           THEN /\ printed' = Report("Template has no workflow sections", 0)
                /\ wrote' = FALSE
                /\ UNCHANGED <<claude, writes>>
           ELSE IF added' = <<>>
           THEN /\ printed' = Report("All workflow sections already present", 0)
                /\ wrote' = FALSE
                /\ UNCHANGED <<claude, writes>>
           ELSE /\ claude' = RegularFile(existing \o Appended(added'))
                /\ writes' = writes + 1
                /\ wrote' = TRUE
                /\ printed' = Report("Merged", Len(added'))

-----------------------------------------------------------------------------
(* create_agents_symlink and the steps of main *)

Placeholder(token) == <<"{", "{", token, "}", "}">>

PROJECT_NAME == Placeholder("PROJECT_NAME")
BUILD_COMMAND == Placeholder("BUILD_COMMAND")
TEST_COMMAND == Placeholder("TEST_COMMAND")

\* lines 174-177
Fill(tpl, n, b, t) ==
    Replace(Replace(Replace(tpl, PROJECT_NAME, n), BUILD_COMMAND, b), TEST_COMMAND, t)

\* detect_project_type, given the set of files present in the directory
detect_project_type(files) ==
    IF "CMakeLists.txt" \in files
    THEN [lang |-> "C++", build |-> <<"cmake --build build">>, test |-> <<"ctest --test-dir build">>]
    ELSE IF "Cargo.toml" \in files
    THEN [lang |-> "Rust", build |-> <<"cargo build">>, test |-> <<"cargo test">>]
    ELSE IF "pyproject.toml" \in files \/ "setup.py" \in files
    THEN [lang |-> "Python", build |-> <<"pip install -e .">>, test |-> <<"pytest">>]
    ELSE IF "package.json" \in files
    THEN [lang |-> "Node", build |-> <<"npm run build">>, test |-> <<"npm test">>]
    ELSE IF "go.mod" \in files
    THEN [lang |-> "Go", build |-> <<"go build ./...">>, test |-> <<"go test ./...">>]
    ELSE [lang |-> None, build |-> <<"make">>, test |-> <<"make test">>]

\* prompt(label, default), given the line the user typed
prompt(answer, default) == IF Strip(answer) # <<>> THEN Strip(answer) ELSE default

\* str.lower() over the letters an answer is made of
LowerChar(c) ==
    CASE c = "C" -> "c"
      [] c = "O" -> "o"
      [] c = "M" -> "m"
      [] OTHER -> c

Lower(s) == [i \in 1..Len(s) |-> LowerChar(s[i])]

\* line 146, the fetch succeeding
download_template(tpl) ==
    /\ pc = "start"
    /\ template' = tpl
    /\ pc' = "check"
    /\ UNCHANGED <<claude, agents, system, choice, name, build, test, filled,
                   prompts, exitCode, added, printed, writes, wrote, calls, before, agents0>>

\* DownloadFails, had main caught the exception and gone on
DownloadFailsIgnored ==
    /\ pc = "start"
    /\ pc' = "check"
    /\ UNCHANGED <<template, claude, agents, system, choice, name, build, test, filled,
                   prompts, exitCode, added, printed, writes, wrote, calls, before, agents0>>

\* line 146, urlopen raising: the exception leaves main
DownloadFails ==
    /\ pc = "start"
    /\ pc' = "crashed"
    /\ exitCode' = 1
    /\ UNCHANGED <<template, claude, agents, system, choice, name, build, test, filled,
                   prompts, added, printed, writes, wrote, calls, before, agents0>>

\* lines 149-151 when CLAUDE.md does not exist
NoExisting ==
    /\ pc = "check"
    /\ ~Exists(claude)
    /\ pc' = "prompt"
    /\ UNCHANGED <<template, claude, agents, system, choice, name, build, test, filled,
                   prompts, exitCode, added, printed, writes, wrote, calls, before, agents0>>

\* AskChoice, had line 154 tested choice == "c" alone
AskChoiceNoDefault(answer) ==
    /\ pc = "check"
    /\ Exists(claude)
    /\ prompts' = prompts + 1
    /\ choice' = Lower(Strip(answer))
    /\ IF choice' = <<"c">>
       THEN pc' = "exited" /\ exitCode' = 0
       ELSE pc' = "prompt" /\ UNCHANGED exitCode
    /\ UNCHANGED <<template, claude, agents, system, name, build, test, filled,
                   added, printed, writes, wrote, calls, before, agents0>>

\* lines 151-159: the overwrite / merge / cancel question
AskChoice(answer) ==
    /\ pc = "check"
    /\ Exists(claude)
    /\ prompts' = prompts + 1
    /\ choice' = Lower(Strip(answer))
    /\ IF choice' \in {<<"c">>, <<>>}
       THEN pc' = "exited" /\ exitCode' = 0
       ELSE pc' = "prompt" /\ UNCHANGED exitCode
    /\ UNCHANGED <<template, claude, agents, system, name, build, test, filled,
                   added, printed, writes, wrote, calls, before, agents0>>

\* lines 162-171: the defaults and the three prompts
DetectAndPrompt(files, default_name, a1, a2, a3) ==
    LET d == detect_project_type(files)
    IN  /\ pc = "prompt"
        /\ name' = prompt(a1, default_name)
        /\ build' = prompt(a2, d.build)
        /\ test' = prompt(a3, d.test)
        /\ prompts' = prompts + 3
        /\ pc' = "fill"
        /\ UNCHANGED <<template, claude, agents, system, choice, filled, exitCode,
                       added, printed, writes, wrote, calls, before, agents0>>

\* lines 174-177
FillTemplate ==
    /\ pc = "fill"
    /\ filled' = Fill(template, name, build, test)
    /\ pc' = "write"
    /\ UNCHANGED <<template, claude, agents, system, choice, name, build, test,
                   prompts, exitCode, added, printed, writes, wrote, calls, before, agents0>>

\* lines 179-180
MergePath ==
    /\ pc = "write"
    /\ choice = <<"m">>
    /\ merge_into(filled)
    /\ pc' = "agents"
    /\ UNCHANGED <<template, agents, system, choice, name, build, test, filled,
                   prompts, exitCode, agents0>>

\* lines 181-184
WritePath ==
    /\ pc = "write"
    /\ choice # <<"m">>
    /\ claude' = RegularFile(filled)
    /\ writes' = writes + 1
    /\ wrote' = TRUE
    /\ pc' = "agents"
    /\ UNCHANGED <<template, agents, system, choice, name, build, test, filled,
                   prompts, exitCode, added, printed, calls, before, agents0>>

\* create_agents_symlink, had it not tested os.path.exists("AGENTS.md")
CreateAgentsAlways ==
    IF system = "Windows" THEN claude ELSE SymlinkTo("CLAUDE.md")

\* create_agents_symlink(): what AGENTS.md is after the call
create_agents_symlink ==
    IF Exists(agents) THEN agents
    ELSE IF system = "Windows" THEN claude
    ELSE SymlinkTo("CLAUDE.md")

\* lines 187-190
AgentsStep ==
    /\ pc = "agents"
    /\ agents' = IF ~(choice = <<"m">> /\ Exists(agents)) THEN create_agents_symlink ELSE agents
    /\ pc' = "done"
    /\ exitCode' = 0
    /\ UNCHANGED <<template, claude, system, choice, name, build, test, filled,
                   prompts, added, printed, writes, wrote, calls, before, agents0>>

-----------------------------------------------------------------------------
(* Inputs *)

MaxPieces == 3
MaxCalls == 2

Line(s) == s \o <<NL>>

Range(f) == {f[i] : i \in DOMAIN f}

\* what a template is put together from: recognized heading lines, other
\* heading lines of levels 2 to 4, a "##" followed by a tab, body text with
\* a space after it and no line end, an empty line
TemplatePieces ==
    {Line(h) : h \in Range(WORKFLOW_SECTIONS)}
    \cup {Line(Heading(level, "Other")) : level \in 2..4}
    \cup {<<HASH, HASH, TAB, "text", NL>>, <<"text", SP>>, <<NL>>}

Templates ==
    UNION {{Flatten(ps) : ps \in [1..n -> TemplatePieces]} : n \in 0..MaxPieces}

AllSections == Flatten([i \in 1..Len(WORKFLOW_SECTIONS) |-> Line(WORKFLOW_SECTIONS[i])])

\* CLAUDE.md's content before a merge: empty, with some recognized headings, with "### Teams" only inside a level-4 heading, with all
ExistingDocs ==
    { <<>>,
      Line(WORKFLOW_SECTIONS[1]),
      <<"text", NL>> \o Line(WORKFLOW_SECTIONS[2]) \o Line(WORKFLOW_SECTIONS[3]),
      Line(Heading(4, "Teams")),
      AllSections }

Bodies == { <<>>, <<"text", NL>>, <<NL, "text", SP, NL, NL>> }

\* templates that hold every recognized heading, in the list's order, each
\* on a line of its own and followed by a body, after a level-1 title
FullTemplates ==
    { Line(Heading(1, "Other")) \o Flatten([i \in 1..Len(WORKFLOW_SECTIONS) |->
          Line(WORKFLOW_SECTIONS[i]) \o body[i]])
      : body \in [1..Len(WORKFLOW_SECTIONS) -> Bodies] }

\* the texts the fetch may return in a run of main
MainTemplates ==
    { <<>>,
      Line(<<HASH, SP>> \o PROJECT_NAME) \o Line(BUILD_COMMAND) \o Line(TEST_COMMAND),
      Line(<<HASH, SP>> \o PROJECT_NAME) \o Line(WORKFLOW_SECTIONS[1])
          \o Line(WORKFLOW_SECTIONS[2]) \o Line(BUILD_COMMAND)
          \o Line(WORKFLOW_SECTIONS[4]) \o Line(TEST_COMMAND),
      Line(PROJECT_NAME \o PROJECT_NAME) \o AllSections \o Line(TEST_COMMAND \o BUILD_COMMAND) }

\* CLAUDE.md when main starts
ClaudeFiles ==
    { NoFile,
      RegularFile(<<"text">>),
      RegularFile(Line(<<HASH, SP, "text">>) \o Line(WORKFLOW_SECTIONS[1]) \o Line(WORKFLOW_SECTIONS[2])),
      RegularFile(AllSections) }

\* AGENTS.md when main starts
AgentsFiles == { NoFile, RegularFile(<<"text">>), SymlinkTo("CLAUDE.md") }

\* what the user may type at the overwrite / merge / cancel question
ChoiceAnswers == { <<>>, <<"c">>, <<SP, "C", SP>>, <<"o">>, <<"O">>, <<"m">>, <<"M", SP>>, <<"x">> }

FileSets == { {}, {"Cargo.toml"}, {"CMakeLists.txt", "go.mod"}, {"setup.py", "package.json"} }
DefaultNames == { <<"folder">> }
NameAnswers == { <<>>, <<SP, "myproject">>, BUILD_COMMAND }
BuildAnswers == { <<>>, TEST_COMMAND }
TestAnswers == { <<>>, <<"tox">> }

-----------------------------------------------------------------------------
(* Specifications *)

Idle ==
    /\ pc = "start"
    /\ choice = None
    /\ name = None
    /\ build = None
    /\ test = None
    /\ filled = None
    /\ prompts = 0
    /\ exitCode = Running
    /\ added = <<>>
    /\ printed = Report("", 0)
    /\ writes = 0
    /\ wrote = FALSE
    /\ calls = 0

\* a run of main
Init ==
    /\ Idle
    /\ template = None
    /\ claude \in ClaudeFiles
    /\ agents \in AgentsFiles
    /\ system \in {"Linux", "Windows"}
    /\ before = claude
    /\ agents0 = agents

Next ==
    \/ \E tpl \in MainTemplates : download_template(tpl)
    \/ DownloadFails
    \/ NoExisting
    \/ \E answer \in ChoiceAnswers : AskChoice(answer)
    \/ \E files \in FileSets, default_name \in DefaultNames, a1 \in NameAnswers,
          a2 \in BuildAnswers, a3 \in TestAnswers :
          DetectAndPrompt(files, default_name, a1, a2, a3)
    \/ FillTemplate
    \/ MergePath
    \/ WritePath
    \/ AgentsStep

Spec == Init /\ [][Next]_vars

\* merge_into("CLAUDE.md", template), called up to MaxCalls times in a row
MergeCall ==
    /\ calls < MaxCalls
    /\ merge_into(template)
    /\ UNCHANGED <<pc, template, agents, system, choice, name, build, test, filled,
                   prompts, exitCode, agents0>>

InitMerge ==
    /\ Idle
    /\ template \in Templates
    /\ claude \in {RegularFile(doc) : doc \in ExistingDocs}
    /\ agents = NoFile
    /\ system = "Linux"
    /\ before = claude
    /\ agents0 = agents

NextMerge == MergeCall

SpecMerge == InitMerge /\ [][NextMerge]_vars

\* merge_into against an empty CLAUDE.md, the template holding every recognized heading
InitFull ==
    /\ Idle
    /\ template \in FullTemplates
    /\ claude = RegularFile(<<>>)
    /\ agents = NoFile
    /\ system = "Linux"
    /\ before = claude
    /\ agents0 = agents

SpecFull == InitFull /\ [][NextMerge]_vars

-----------------------------------------------------------------------------
(* Properties *)

\* the workflow block of a template that holds the first recognized heading
Block(tpl) == Slice(tpl, Find(tpl, WORKFLOW_SECTIONS[1]), Len(tpl))

\* the recognized headings (by their place in the list) that are absent from
\* the target and found in the template's workflow block
Missing(existing, tpl) ==
    IF ~Contains(tpl, WORKFLOW_SECTIONS[1]) THEN {}
    ELSE {i \in DOMAIN WORKFLOW_SECTIONS :
            /\ ~Contains(existing, WORKFLOW_SECTIONS[i])
            /\ Contains(Block(tpl), WORKFLOW_SECTIONS[i])}

\* the span of the template lines 110-115 delimit for the i-th recognized heading
Span(tpl, i) ==
    LET heading == WORKFLOW_SECTIONS[i]
        start == Find(Block(tpl), heading)
    IN  Slice(Block(tpl), start, SectionEnd(Block(tpl), heading, start))

RECURSIVE Count(_, _)
\* the number of non-overlapping occurrences of sub in s
Count(s, sub) ==
    LET i == Find(s, sub)
    IN  IF i = -1 THEN 0 ELSE 1 + Count(Slice(s, i + Len(sub), Len(s)), sub)

IsPrefix(p, s) == Len(p) <= Len(s) /\ SubSeq(s, 1, Len(p)) = p

RECURSIVE JoinWith(_, _)
JoinWith(ss, sep) ==
    IF ss = <<>> THEN <<>>
    ELSE IF Len(ss) = 1 THEN ss[1]
    ELSE ss[1] \o sep \o JoinWith(Tail(ss), sep)

EndsWithOneNewline(s) ==
    /\ Len(s) >= 2
    /\ s[Len(s)] = NL
    /\ s[Len(s) - 1] \notin Whitespace

\* C1: merging a template that holds every recognized heading into an empty
\* target leaves a target that holds every recognized section, each exactly
\* once, each ending with a single newline, in the template's order.
C1_FullMergeEachSectionOnce ==
    calls = 1 =>
        /\ \A i \in DOMAIN WORKFLOW_SECTIONS :
              /\ Count(claude.data, WORKFLOW_SECTIONS[i]) = 1
              /\ Contains(claude.data, Section(Block(template), WORKFLOW_SECTIONS[i]))
              /\ EndsWithOneNewline(Section(Block(template), WORKFLOW_SECTIONS[i]))
        /\ \A i, j \in DOMAIN WORKFLOW_SECTIONS :
              i < j => Find(claude.data, WORKFLOW_SECTIONS[i]) < Find(claude.data, WORKFLOW_SECTIONS[j])

\* C2: a second merge_into with the same template, reading the first one's
\* output, inserts nothing: the target stays as the first call left it.
C2_SecondMergeAddsNothing ==
    calls >= 2 => (added = <<>> /\ claude = before /\ writes <= 1)

C2_Witness ==
    /\ calls = 2
    /\ writes = 1
    /\ claude = before
    /\ Len(claude.data) > 0

\* the heading line the claim takes for the end of a level-L section: a
\* newline, 1..L "#" and a space
ClaimedHeadingAt(t, i, level) ==
    /\ i + 1 <= Len(t)
    /\ t[i + 1] = NL
    /\ \E k \in 1..level :
          /\ i + k + 2 <= Len(t)
          /\ \A j \in 1..k : t[i + 1 + j] = HASH
          /\ t[i + k + 2] = SP

ClaimedEnd(workflow_block, heading, start) ==
    LET from == start + Len(heading)
        ends == {i \in from..(Len(workflow_block) - 1) :
                    ClaimedHeadingAt(workflow_block, i, Level(heading))}
    IN  IF ends = {} THEN Len(workflow_block)
        ELSE CHOOSE i \in ends : \A j \in ends : i <= j

\* C3: the span extracted for a recognized heading of level L ends at the
\* first later heading line of level <= L (a newline, 1..L "#" and a space),
\* or at the end of the workflow block; nothing else ends it.
C3_SpanEndsAtHeadingLine ==
    calls >= 1 =>
        \A i \in Missing(before.data, template) :
            LET heading == WORKFLOW_SECTIONS[i]
                start == Find(Block(template), heading)
            IN  SectionEnd(Block(template), heading, start)
                    = ClaimedEnd(Block(template), heading, start)

\* C4: a merge_into call writes only if some recognized heading is absent
\* from the target and found in the template's workflow block; otherwise it
\* does not write and the target is unchanged.
C4_WriteOnlyIfMissing ==
    calls >= 1 =>
        LET need == Missing(before.data, template) # {}
        IN  /\ (wrote \/ claude # before) => need
            /\ ~need => (~wrote /\ claude = before)

C4_Witness ==
    /\ calls = 1
    /\ ~wrote
    /\ claude = before
    /\ Contains(template, WORKFLOW_SECTIONS[1])
    /\ printed.text = "All workflow sections already present"

\* C5: as long as the fetch has not returned the template, no local file has
\* been touched: CLAUDE.md and AGENTS.md are as the run found them.
C5_NoFileTouchedBeforeFetch ==
    template = None =>
        (claude = before /\ agents = agents0 /\ writes = 0 /\ calls = 0)

C5_Witness ==
    /\ pc = "crashed"
    /\ exitCode = 1
    /\ template = None
    /\ Exists(claude)

RECURSIVE SubstituteOnce(_, _, _, _)
\* one pass over the template that replaces each placeholder where it stands
\* and never looks into the text it put in
SubstituteOnce(tpl, n, b, t) ==
    IF tpl = <<>> THEN <<>>
    ELSE IF StartsAt(tpl, PROJECT_NAME, 0)
    THEN n \o SubstituteOnce(Slice(tpl, Len(PROJECT_NAME), Len(tpl)), n, b, t)
    ELSE IF StartsAt(tpl, BUILD_COMMAND, 0)
    THEN b \o SubstituteOnce(Slice(tpl, Len(BUILD_COMMAND), Len(tpl)), n, b, t)
    ELSE IF StartsAt(tpl, TEST_COMMAND, 0)
    THEN t \o SubstituteOnce(Slice(tpl, Len(TEST_COMMAND), Len(tpl)), n, b, t)
    ELSE <<Head(tpl)>> \o SubstituteOnce(Tail(tpl), n, b, t)

\* C6: filling replaces every placeholder of the template by its value, a
\* value is never itself substituted, and every order of the three
\* replacements gives the same text.
C6_FillOrderIrrelevant ==
    pc \in {"write", "agents", "done"} =>
        /\ filled = SubstituteOnce(template, name, build, test)
        /\ filled = Replace(Replace(Replace(template, PROJECT_NAME, name), TEST_COMMAND, test), BUILD_COMMAND, build)
        /\ filled = Replace(Replace(Replace(template, BUILD_COMMAND, build), PROJECT_NAME, name), TEST_COMMAND, test)
        /\ filled = Replace(Replace(Replace(template, BUILD_COMMAND, build), TEST_COMMAND, test), PROJECT_NAME, name)
        /\ filled = Replace(Replace(Replace(template, TEST_COMMAND, test), PROJECT_NAME, name), BUILD_COMMAND, build)
        /\ filled = Replace(Replace(Replace(template, TEST_COMMAND, test), BUILD_COMMAND, build), PROJECT_NAME, name)

\* C7: once the overwrite / merge / cancel question is answered with an empty
\* line or "c", the run has ended with exit code 0, no file is created or
\* modified, and no other prompt was issued.
C7_CancelTouchesNothing ==
    choice \in {<<>>, <<"c">>} =>
        /\ pc = "exited"
        /\ exitCode = 0
        /\ claude = before
        /\ agents = agents0
        /\ writes = 0
        /\ prompts = 1

C7_Witness ==
    /\ pc = "exited"
    /\ choice = <<>>
    /\ prompts = 1
    /\ Exists(claude)

\* C8: an AGENTS.md that exists is never replaced or modified; AGENTS.md is
\* created only when it did not exist, only after CLAUDE.md was written or
\* merged, as a symlink to CLAUDE.md or, on Windows, a copy of it.
C8_AgentsCreatedOnlyIfAbsent ==
    /\ Exists(agents0) => agents = agents0
    /\ agents # agents0 =>
          /\ pc = "done"
          /\ writes >= 1 \/ calls >= 1
          /\ Exists(claude)
          /\ agents = IF system = "Windows" THEN claude ELSE SymlinkTo("CLAUDE.md")

C8_Witness ==
    /\ pc = "done"
    /\ ~Exists(agents0)
    /\ agents = SymlinkTo("CLAUDE.md")
    /\ writes = 1

C10_OnlyOverwriteDiscards ==
    (Exists(before) /\ choice # <<"o">>) =>
        (Exists(claude) /\ IsPrefix(before.data, claude.data))

====
